---- MODULE Spec2Model ----
(***************************************************************************)
(* Morse contact simulation engine (src/js/app.js): the per-mode contact   *)
(* state machine with its audio lock, station registry and contact log.    *)
(*                                                                         *)
(* Time is counted in quarter seconds, the smallest delay the handlers     *)
(* use (0.25 s = 1, 0.5 s = 2, 1 s = 4, 2 s = 8).  The handlers only       *)
(* compare and subtract timestamps, so every timestamp is kept relative to *)
(* audioContext.currentTime: currentTime is 0, a timestamp in the future   *)
(* is positive, and the passing of d units (Tick) lowers every stored      *)
(* timestamp by d.  A lock in the past is kept as 0 and a start timestamp  *)
(* more than MaxElapsed in the past as -MaxElapsed.  Texts are sequences   *)
(* of one-character strings.  JavaScript null is encoded per field: NoStation *)
(* for a station, NullIndex for activeStationIndex, NullTime for a         *)
(* timestamp, NullInputs for the configuration, kind "null" for            *)
(* lastRespondingStations.  Array indices are 1-based here.                *)
(***************************************************************************)
EXTENDS Integers, Sequences, FiniteSets, TLC

\* ------------------------------------------------------------------ bounds
MaxElapsed == 4     \* a start timestamp is followed this far into the past
IdleStep == 4       \* the clock advances by this much, or until the channel clears
MaxStations == 2    \* the registry holds at most this many stations
MaxAttempts == 2    \* sends are triggered only while the attempt counter is below this
MaxSlowdowns == 4   \* beyond MaxAttempts only QRS is sent, up to this many sends
MaxContacts == 1    \* contacts are logged only while the contact counter is below this

\* ------------------------------------------------------- program constants
farnsworthLowerBy == 6
FarnsworthFloor == 5
StaticDelay == 8
AckDelayMulti == 1
ExchangeGap == 2
RepeatDelay == 1
AckDelaySingle == 4
NextStationDelay == 4
TuStartDelay == 2
NullIndex == 0
RandDelays == {0, 3}        \* Math.random() in [0, 1): sampled at both ends

Max(a, b) == IF a >= b THEN a ELSE b

\* audioContext.currentTime, the origin of every timestamp
currentTime == 0

\* the timestamp 0 of updateAudioLock(0): the start of the audio clock, which
\* is never after the present
TimeZero == currentTime - MaxElapsed

\* currentStationStartTime: null, or a timestamp
NullTime == [set |-> FALSE, t |-> 0]
At(t) == [set |-> TRUE, t |-> t]

\* -------------------------------------------------------------------- text
Upper(c) ==
    CASE c = "k" -> "K"
      [] c = "a" -> "A"
      [] c = "b" -> "B"
      [] OTHER -> c

RECURSIVE TrimLeft(_)
TrimLeft(s) == IF s # <<>> /\ Head(s) = " " THEN TrimLeft(Tail(s)) ELSE s

RECURSIVE TrimRight(_)
TrimRight(s) ==
    IF s # <<>> /\ s[Len(s)] = " " THEN TrimRight(SubSeq(s, 1, Len(s) - 1)) ELSE s

Trim(s) == TrimRight(TrimLeft(s))

ToUpperCase(s) == [i \in 1..Len(s) |-> Upper(s[i])]

Includes(s, c) == \E i \in 1..Len(s) : s[i] = c

\* String.prototype.replace(c, ''): only the first occurrence is removed
ReplaceFirst(s, c) ==
    IF ~Includes(s, c) THEN s
    ELSE LET i == CHOOSE k \in 1..Len(s) :
                    s[k] = c /\ \A j \in 1..(k - 1) : s[j] # c
         IN  SubSeq(s, 1, i - 1) \o SubSeq(s, i + 1, Len(s))

IsSubstring(q, s) ==
    \E i \in 0..(Len(s) - Len(q)) : SubSeq(s, i + 1, i + Len(q)) = q

\* Matcher: perfect | partial | none
compareStrings(source, query) ==
    IF ToUpperCase(Trim(source)) = ToUpperCase(Trim(query)) THEN "perfect"
    ELSE IF Trim(query) # <<>>
            /\ IsSubstring(ToUpperCase(Trim(query)), ToUpperCase(Trim(source)))
         THEN "partial"
         ELSE "none"

\* ------------------------------------------------------------ collaborators
Modes == {"single", "contest", "pota"}

showTuStep(m) == m # "single"

HasTheirSignoff(m) == m # "contest"

extraInfoFieldKey(m) ==
    CASE m = "contest" -> "serialNumber"
      [] m = "pota" -> "state"
      [] OTHER -> ""

cqMessage == <<"C", "Q">>
yourExchange == <<"5", "N">>
theirExchange == <<"R", "5">>
yourSignoff == <<"T", "U">>
theirSignoff == <<"E", "E">>
AckText == <<"R", "R">>

\* digits of an exchange sent as cut letters (5 -> E) when cut numbers are on
CutDigit(c) == IF c = "5" THEN "E" ELSE c

CutNumbers(s) == [i \in 1..Len(s) |-> CutDigit(s[i])]

\* one callsign is the beginning of the other
Callsigns == {<<"K", "A">>, <<"K", "A", "B">>}
Wpms == {20, 10}

NoStation ==
    [id |-> 0, callsign |-> <<>>, wpm |-> 0,
     enableFarnsworth |-> FALSE, farnsworthSpeed |-> 0, slowdowns |-> 0]

getCallingStation(id, cs, w) ==
    [id |-> id, callsign |-> cs, wpm |-> w,
     enableFarnsworth |-> FALSE, farnsworthSpeed |-> w, slowdowns |-> 0]

\* the exchange attributes of a generated station
serialNumber(stn) == 7
state(stn) == IF stn.callsign = <<"K", "A">> THEN <<"C", "A">> ELSE <<>>

NullStation == [callsign |-> <<>>]
getYourStation == [callsign |-> <<"M", "E">>]

NullInputs == [valid |-> FALSE, enableCutNumbers |-> FALSE]
ValidInputs == {[valid |-> TRUE, enableCutNumbers |-> TRUE]}
FormStates == ValidInputs \cup {NullInputs}     \* what getInputs() can return

\* the texts a trainee types into the response field
Texts ==
    { <<>>, <<"?">>, <<"A", "G", "N">>, <<"Q", "R", "S">>, <<"K", "A">>,
      <<"k", "a", " ">>, <<"K", "A", "?">>, <<"K", "A", "B">>, <<"K">>, <<"B">>,
      <<"W">>, <<" ">>, <<"A", "G", "N", "?">> }

\* Of the response field the state keeps whether it is empty: the handlers
\* read it only when send is clicked (typed) and write only '' to it.
SomeText == <<"*">>

FieldHolding(typed) == IF typed = <<>> THEN <<>> ELSE SomeText

\* the texts a trainee types into the info field
InfoTexts == {<<>>, <<"7">>, <<"8">>, <<"c", "a">>}

\* ------------------------------------------------------------------- state
VARIABLES
    currentMode, inputs, currentStations, currentStation, activeStationIndex,
    readyForTU, currentStationAttempts, currentStationStartTime, totalContacts,
    yourStation, lastRespondingStations,
    audioLock,          \* the busy-until watermark
    staticPlaying,      \* the background noise layer is running
    responseField,      \* the response text field: empty, or holding text
    resultsTable,       \* the contact log
    cqDisabled,         \* cqButton.disabled
    activeShown,        \* the registry size last reported to the UI
    sched,              \* audio segments scheduled by the last handler run
    lockTrace,          \* the lock after each updateAudioLock of the last handler run
    born,               \* the stations getCallingStation made in the last handler run
    sendsToStation,     \* accepted sends since the single-mode station became active
    event               \* the last handler run: its inputs and the branch it took

vars ==
    <<currentMode, inputs, currentStations, currentStation, activeStationIndex,
      readyForTU, currentStationAttempts, currentStationStartTime, totalContacts,
      yourStation, lastRespondingStations, audioLock, staticPlaying,
      responseField, resultsTable, cqDisabled, activeShown, sched, lockTrace,
      born, sendsToStation, event>>

\* Session State as the spec lists it, plus the UI fields the handlers write
sessionVars ==
    <<currentMode, inputs, currentStations, currentStation, activeStationIndex,
      readyForTU, currentStationAttempts, currentStationStartTime, totalContacts,
      yourStation, lastRespondingStations, resultsTable, cqDisabled, activeShown>>

\* The state a handler works on, as one record
Cur ==
    [currentMode |-> currentMode, inputs |-> inputs,
     currentStations |-> currentStations, currentStation |-> currentStation,
     activeStationIndex |-> activeStationIndex, readyForTU |-> readyForTU,
     currentStationAttempts |-> currentStationAttempts,
     currentStationStartTime |-> currentStationStartTime,
     totalContacts |-> totalContacts, yourStation |-> yourStation,
     lastRespondingStations |-> lastRespondingStations,
     audioLock |-> audioLock, staticPlaying |-> staticPlaying,
     responseField |-> responseField, resultsTable |-> resultsTable,
     cqDisabled |-> cqDisabled, activeShown |-> activeShown,
     sched |-> <<>>, lockTrace |-> <<>>, born |-> <<>>,
     sendsToStation |-> sendsToStation, path |-> "none"]

Took(st, p) == [st EXCEPT !.path = p]

\* ------------------------------------------------------------ audio (audio.js)
Duration(text) == Len(text)

\* (a lock that still holds at the instant it ends)
getAudioLockInclusive == currentTime <= audioLock

\* getAudioLock(): the channel is busy
getAudioLock == currentTime < audioLock

\* player.playSentence(text, start): the segment is recorded, its end returned
StartOf(st, start) == Max(start, st.audioLock)

EndOf(st, text, start) == StartOf(st, start) + Duration(text)

playSentence(st, who, what, text, start) ==
    [st EXCEPT !.sched = Append(@, [who |-> who, what |-> what, text |-> text,
                                    start |-> StartOf(st, start),
                                    end |-> EndOf(st, text, start)])]

updateAudioLock(st, t) ==
    LET l == Max(st.audioLock, t)
    IN  [st EXCEPT !.audioLock = l,
                   !.lockTrace = Append(@, [lock |-> l, n |-> Len(st.sched)])]

LastEnd(st) == st.sched[Len(st.sched)].end

\* stopAllAudio(): silences everything, the noise layer included, and unlocks
stopAllAudio(st) == [st EXCEPT !.audioLock = currentTime, !.staticPlaying = FALSE]

\* ------------------------------------------------------------ registry (util.js)
\* A station object is known by its id: the stations of the registry carry
\* the ids 1, 2, ... in registry order when a handler returns.
\* lastRespondingStations is null, the currentStations array itself, or an
\* array of its own: a sequence of references [id, callsign], where id 0
\* refers to a station object that is no longer in the registry.
NullList == [kind |-> "null", stns |-> <<>>]
AliasList == [kind |-> "alias", stns |-> <<>>]
Refs(s) == [i \in 1..Len(s) |-> [id |-> s[i].id, callsign |-> s[i].callsign]]
OwnList(s) == [kind |-> "own", stns |-> Refs(s)]

LastResponding(st) ==
    IF st.lastRespondingStations.kind = "alias" THEN Refs(st.currentStations)
    ELSE st.lastRespondingStations.stns

\* currentStations = []: a new array; an alias keeps the old one
ReplaceRegistry(st) ==
    [st EXCEPT !.currentStations = <<>>,
               !.lastRespondingStations =
                   IF @.kind = "alias" THEN OwnList(st.currentStations) ELSE @]

SeqIds(s) == {s[i].id : i \in 1..Len(s)}

UsedIds(st) ==
    SeqIds(st.currentStations) \cup SeqIds(st.lastRespondingStations.stns)
        \cup {st.currentStation.id}

FreshId(st) ==
    CHOOSE i \in 1..(Cardinality(UsedIds(st)) + 1) :
        i \notin UsedIds(st) /\ \A j \in 1..(i - 1) : j \in UsedIds(st)

PositionOf(s, id) == CHOOSE i \in 1..Len(s) : s[i].id = id

RenameIds(st) ==
    LET reg == st.currentStations
        Ref(e) == IF e.id \in SeqIds(reg) /\ e.id # 0
                  THEN [e EXCEPT !.id = PositionOf(reg, e.id)]
                  ELSE [e EXCEPT !.id = 0]
    IN  [st EXCEPT
           !.currentStations = [i \in 1..Len(reg) |-> [reg[i] EXCEPT !.id = i]],
           !.currentStation = IF @.id = 0 THEN @ ELSE [@ EXCEPT !.id = 1],
           !.lastRespondingStations.stns = [i \in 1..Len(@) |-> Ref(@[i])]]

\* getCallingStation() as the handlers use it: the new object is noted
Generated(st, stn) == [st EXCEPT !.born = Append(@, [stn EXCEPT !.id = 0])]

\* addStations(currentStations, inputs): pushes the new stations in place
RECURSIVE addStations(_, _)
addStations(st, news) ==
    IF news = <<>> THEN st
    ELSE LET stn == getCallingStation(FreshId(st), Head(news).callsign,
                                      Head(news).wpm)
         IN  addStations(
               Generated([st EXCEPT !.currentStations = Append(@, stn)], stn),
               Tail(news))

\* the stations a call may admit: at least one into an empty registry, none
\* beyond MaxStations
\* the generator's stations here: a fast one and one slower than
\* FarnsworthFloor + farnsworthLowerBy
Newcomers ==
    {n \in [callsign : Callsigns, wpm : Wpms] :
        n.wpm = (IF n.callsign = <<"K", "A">> THEN 20 ELSE 10)}

Admissions(st) ==
    LET room == MaxStations - Len(st.currentStations)
    IN  {s \in UNION {[1..k -> Newcomers] : k \in 0..Max(room, 0)} :
            Len(st.currentStations) = 0 => (Len(s) > 0 \/ room <= 0)}

\* respondWithAllStations(stations, start): every station sends its callsign,
\* each after the end of the one before
RECURSIVE respondWithAllStations(_, _, _, _)
respondWithAllStations(st, stations, start, r) ==
    IF stations = <<>> THEN st
    ELSE LET st1 == playSentence(st, "station", "call", Head(stations).callsign,
                                 start + r + RepeatDelay)
             st2 == updateAudioLock(st1, LastEnd(st1))
         IN  respondWithAllStations(st2, Tail(stations), LastEnd(st1), r)

updateActiveStations(st, n) == [st EXCEPT !.activeShown = n]

\* A handler run ends in state record st, having taken branch st.path
Commit(op, typed, form, raw) ==
  \E st \in {RenameIds(raw)} :
    /\ currentMode' = st.currentMode
    /\ inputs' = st.inputs
    /\ currentStations' = st.currentStations
    /\ currentStation' = st.currentStation
    /\ activeStationIndex' = st.activeStationIndex
    /\ readyForTU' = st.readyForTU
    /\ currentStationAttempts' = st.currentStationAttempts
    /\ currentStationStartTime' = st.currentStationStartTime
    /\ totalContacts' = st.totalContacts
    /\ yourStation' = st.yourStation
    /\ lastRespondingStations' = st.lastRespondingStations
    /\ audioLock' = st.audioLock
    /\ staticPlaying' = st.staticPlaying
    /\ responseField' = st.responseField
    /\ resultsTable' = st.resultsTable
    /\ cqDisabled' = st.cqDisabled
    /\ activeShown' = st.activeShown
    /\ sched' = st.sched
    /\ lockTrace' = st.lockTrace
    /\ born' = st.born
    /\ sendsToStation' = st.sendsToStation
    /\ event' = [op |-> op, path |-> st.path, typed |-> typed, form |-> form,
                 locked |-> getAudioLock]

\* ------------------------------------------------------------------ handlers
\* resetGameState(): lines 441-456
resetGameState(st) ==
    LET st1 == ReplaceRegistry(st)
        st2 == [st1 EXCEPT !.currentStation = NoStation,
                           !.activeStationIndex = NullIndex,
                           !.readyForTU = FALSE,
                           !.currentStationAttempts = 0,
                           !.currentStationStartTime = NullTime,
                           !.totalContacts = 0,
                           !.sendsToStation = 0]
        st3 == updateActiveStations(st2, 0)
        st4 == [st3 EXCEPT !.resultsTable = <<>>, !.responseField = <<>>,
                           !.cqDisabled = FALSE]
    IN  updateAudioLock(stopAllAudio(st4), TimeZero)

changeMode(m) ==
    /\ m # currentMode
    /\ Commit("changeMode", <<>>, NullInputs,
              Took(resetGameState([Cur EXCEPT !.currentMode = m]), "done"))

\* nextSingleStation(responseStartTime): lines 995-1018
nextSingleStation(st, responseStartTime, new, r) ==
    LET callingStation == getCallingStation(FreshId(st), new.callsign, new.wpm)
        st1 == [Generated(st, callingStation) EXCEPT
                          !.currentStation = callingStation,
                          !.currentStationAttempts = 0,
                          !.sendsToStation = 0]
        st2 == updateActiveStations(st1, 1)
        st3 == playSentence(st2, "station", "call", callingStation.callsign,
                            responseStartTime + r + NextStationDelay)
        st4 == updateAudioLock(st3, LastEnd(st3))
    IN  [st4 EXCEPT !.currentStationStartTime = At(LastEnd(st3)),
                    !.responseField = <<>>,
                    !.cqDisabled = (~showTuStep(st.currentMode)
                                    /\ callingStation # NoStation)]

\* cq(): lines 483-522
\* (a cq that does not look at the lock)
CqIgnoresLock == FALSE

CqBusy == getAudioLock

\* (a cq that does not look for an active station)
CqNeverSeesStation(st) == FALSE

CqStationActive(st) == ~showTuStep(st.currentMode) /\ st.currentStation # NoStation

CqStoreInputs(st, form) == [st EXCEPT !.inputs = form]

CqEnsureStatic(st) == [st EXCEPT !.staticPlaying = TRUE]

cqRun(st, form, news, new, r) ==
    IF CqBusy THEN Took(st, "busy")
    ELSE IF CqStationActive(st) THEN Took(st, "station_active")
    ELSE
      LET backgroundStaticDelay == IF st.staticPlaying THEN 0 ELSE StaticDelay
          st1 == CqStoreInputs(CqEnsureStatic(st), form)
      IN  IF st1.inputs = NullInputs THEN Took(st1, "invalid")
          ELSE
            LET st2 == [st1 EXCEPT !.yourStation = getYourStation]
                st3 == playSentence(st2, "you", "cq", cqMessage,
                                    currentTime + backgroundStaticDelay)
                yourResponseTimer == LastEnd(st3)
                st4 == updateAudioLock(st3, yourResponseTimer)
            IN  IF showTuStep(st.currentMode)
                THEN LET st5 == addStations(st4, news)
                         st6 == respondWithAllStations(st5, st5.currentStations,
                                                       yourResponseTimer, r)
                     IN  Took([st6 EXCEPT !.lastRespondingStations = AliasList],
                              "multi")
                ELSE Took(nextSingleStation([st4 EXCEPT !.cqDisabled = TRUE],
                                            yourResponseTimer, new, r),
                          "single")

\* the form states, admissions and random draws a run of cq() can consume
CqAccepts(st) == ~CqBusy /\ ~CqStationActive(st)

CqForms(st) == IF CqAccepts(st) THEN FormStates ELSE {NullInputs}

CqDraws(st, form) == IF CqAccepts(st) /\ form # NullInputs THEN RandDelays ELSE {0}

CqNews(st, form) ==
    IF CqAccepts(st) /\ form # NullInputs /\ showTuStep(st.currentMode)
    THEN Admissions(st) ELSE {<<>>}

CqNew(st, form) ==
    IF CqAccepts(st) /\ form # NullInputs /\ ~showTuStep(st.currentMode)
    THEN Newcomers ELSE {CHOOSE n \in Newcomers : TRUE}

cq ==
    /\ totalContacts < MaxContacts
    /\ \E form \in CqForms(Cur) :
         \E news \in CqNews(Cur, form), new \in CqNew(Cur, form),
            r \in CqDraws(Cur, form) :
           Commit("cq", <<>>, form, cqRun(Cur, form, news, new, r))

\* send(): lines 531-808
\* (a slow-down that keeps subtracting below the floor)
SlowedWithoutFloor(stn) ==
    [stn EXCEPT !.enableFarnsworth = TRUE,
                !.farnsworthSpeed = (IF stn.enableFarnsworth THEN @ ELSE stn.wpm)
                                      - farnsworthLowerBy,
                !.slowdowns = @ + 1]

\* lines 574-584 and 695-703; slowdowns counts the slow-down requests the
\* station has answered (history, read by no handler)
Slowed(stn) ==
    IF stn.enableFarnsworth
    THEN [stn EXCEPT !.farnsworthSpeed = Max(FarnsworthFloor, @ - farnsworthLowerBy),
                     !.slowdowns = @ + 1]
    ELSE [stn EXCEPT !.enableFarnsworth = TRUE,
                     !.farnsworthSpeed = stn.wpm - farnsworthLowerBy,
                     !.slowdowns = @ + 1]

\* the station objects that `targets` refers to are slowed (one no longer in
\* the registry is slowed too, which nothing observes)
SlowIn(s, targets) ==
    [i \in 1..Len(s) |-> IF s[i].id \in SeqIds(targets) THEN Slowed(s[i]) ELSE s[i]]

SlowLastResponding(st) ==
    [st EXCEPT !.currentStations = SlowIn(@, LastResponding(st))]

IsRepeatRequest(text) ==
    text = <<"?">> \/ text = <<"A", "G", "N">> \/ text = <<"A", "G", "N", "?">>

IsSlowRequest(text) == text = <<"Q", "R", "S">>

Results(st, text) ==
    [i \in 1..Len(st.currentStations) |->
        compareStrings(st.currentStations[i].callsign, ReplaceFirst(text, "?"))]

IndexOf(results, v) ==
    CHOOSE i \in 1..Len(results) :
        results[i] = v /\ \A j \in 1..(i - 1) : results[j] # v

Filter(s, results, v) ==
    LET F[i \in 0..Len(s)] ==
          IF i = 0 THEN <<>>
          ELSE IF results[i] = v THEN Append(F[i - 1], s[i]) ELSE F[i - 1]
    IN  F[Len(s)]

Attempted(st) == [st EXCEPT !.currentStationAttempts = @ + 1]

\* the trainee's own transmission of a send that has a target: lines 555-556,
\* 676-677
SendOwnText(st, text) ==
    LET p1 == playSentence([st EXCEPT !.sendsToStation = @ + 1],
                           "you", "text", text, currentTime)
    IN  updateAudioLock(p1, LastEnd(p1))

SendBusy == getAudioLock

\* (the lock moved to the end of the trainee's text instead of the station's
\* exchange)
SendMultiLockAtOwnEnd(st) == updateAudioLock(st, st.sched[1].end)

SendMultiLockAfterTheirExchange(st) == updateAudioLock(st, LastEnd(st))

\* (a match that always points at the head of the registry)
SendMultiMarkFirst(st, matchIndex) ==
    [st EXCEPT !.readyForTU = TRUE, !.activeStationIndex = 1]

\* lines 653-654
SendMultiMark(st, matchIndex) ==
    [st EXCEPT !.readyForTU = TRUE, !.activeStationIndex = matchIndex]

\* (a repeat that replays the stations that responded last)
SendMultiRepeatLast(st, yourResponseTimer, r) ==
    Attempted(respondWithAllStations(st, LastResponding(st), yourResponseTimer, r))

\* lines 564-567
SendMultiRepeat(st, yourResponseTimer, r) ==
    Attempted(
      [respondWithAllStations(st, st.currentStations, yourResponseTimer, r)
         EXCEPT !.lastRespondingStations = AliasList])

\* (an acknowledgment that also takes the match as confirmed)
SendMultiAckMarksReady(st, matchIndex, yourResponseTimer) ==
    LET a1 == playSentence(st, "station", "ack", AckText,
                           yourResponseTimer + AckDelayMulti)
    IN  SendMultiMark(Attempted(updateAudioLock(a1, LastEnd(a1))), matchIndex)

\* lines 598-604
SendMultiAck(st, matchIndex, yourResponseTimer) ==
    LET a1 == playSentence(st, "station", "ack", AckText,
                           yourResponseTimer + AckDelayMulti)
    IN  Attempted(updateAudioLock(a1, LastEnd(a1)))

\* (a partial match that replays its stations and forgets which they were)
SendMultiPartialKeepsLast(st, results, yourResponseTimer, r) ==
    Attempted(respondWithAllStations(st, Filter(st.currentStations, results, "partial"),
                                     yourResponseTimer, r))

\* lines 659-668
SendMultiPartial(st, results, yourResponseTimer, r) ==
    LET partialMatchStations == Filter(st.currentStations, results, "partial")
    IN  Attempted(
          [respondWithAllStations(st, partialMatchStations, yourResponseTimer, r)
             EXCEPT !.lastRespondingStations = OwnList(partialMatchStations)])

\* (a send without a match that also withdraws the pending confirmation)
SendMultiNoneClearsReady(st) ==
    [Attempted(st) EXCEPT !.readyForTU = FALSE, !.activeStationIndex = NullIndex]

\* lines 670-671
SendMultiNone(st) == Attempted(st)

\* lines 551-672
sendMulti(st0, text, r) ==
    IF Len(st0.currentStations) = 0 THEN Took(st0, "no_target")
    ELSE
      LET st == SendOwnText(st0, text)
          yourResponseTimer == LastEnd(st)
          results == Results(st, text)
          hasQuestionMark == Includes(text, "?")
      IN
        IF IsRepeatRequest(text) THEN
          Took(SendMultiRepeat(st, yourResponseTimer, r), "multi_repeat")
        ELSE IF IsSlowRequest(text) THEN
          IF st.lastRespondingStations.kind = "null" THEN Took(st, "multi_qrs_throw")
          ELSE LET sl == SlowLastResponding(st)
               IN  Took(Attempted(respondWithAllStations(sl, LastResponding(sl),
                                                         yourResponseTimer, r)),
                        "multi_qrs")
        ELSE IF \E i \in 1..Len(results) : results[i] = "perfect" THEN
          LET matchIndex == IndexOf(results, "perfect")
          IN  IF hasQuestionMark THEN
                Took(SendMultiAck(st, matchIndex, yourResponseTimer),
                     "multi_perfect_q")
              ELSE IF st.inputs = NullInputs THEN Took(st, "multi_perfect_throw")
              ELSE
                LET yours == IF st.inputs.enableCutNumbers
                             THEN CutNumbers(<<" ">> \o yourExchange)
                             ELSE <<" ">> \o yourExchange
                    theirs == IF st.inputs.enableCutNumbers
                              THEN CutNumbers(theirExchange) ELSE theirExchange
                    e1 == playSentence(st, "you", "exchange", yours, yourResponseTimer)
                    e2 == updateAudioLock(e1, LastEnd(e1))
                    e3 == playSentence(e2, "station", "exchange", theirs,
                                       LastEnd(e1) + ExchangeGap)
                    e4 == SendMultiLockAfterTheirExchange(e3)
                IN  Took(SendMultiMark(Attempted(e4), matchIndex), "multi_perfect")
        ELSE IF \E i \in 1..Len(results) : results[i] = "partial" THEN
          Took(SendMultiPartial(st, results, yourResponseTimer, r), "multi_partial")
        ELSE Took(SendMultiNone(st), "multi_none")

\* the station's callsign again, after a random pause: lines 684-688, 706-710,
\* 792-796, 802-806
SingleReplay(st, yourResponseTimer, r) ==
    LET p1 == playSentence(st, "station", "call", st.currentStation.callsign,
                           yourResponseTimer + r + RepeatDelay)
    IN  updateAudioLock(p1, LastEnd(p1))

\* (a record that always counts one attempt)
SingleLoggedFirstAttempt(st) == 1

SingleLoggedAttempts(st) == st.currentStationAttempts

SingleLoggedSeq(st) == st.totalContacts

\* currentTime - currentStationStartTime; null counts as 0 in the subtraction,
\* which gives the time since the audio clock started
Elapsed(st) ==
    IF st.currentStationStartTime = NullTime
    THEN [fromStart |-> FALSE, t |-> 0]
    ELSE [fromStart |-> TRUE, t |-> currentTime - st.currentStationStartTime.t]

ContactRecord(seq, stn, attempts, elapsed, extra) ==
    [seq |-> seq, callsign |-> stn.callsign, wpm |-> stn.wpm,
     farnsworth |-> IF stn.enableFarnsworth THEN stn.farnsworthSpeed ELSE 0,
     attempts |-> attempts, elapsed |-> elapsed, extra |-> extra]

addTableRow(st, rec) == [st EXCEPT !.resultsTable = Append(@, rec)]

\* lines 733-788
SingleExchangeChain(st, yourResponseTimer) ==
    LET e1 == playSentence(st, "you", "exchange", <<" ">> \o yourExchange,
                           yourResponseTimer)
        e2 == updateAudioLock(e1, LastEnd(e1))
        e3 == playSentence(e2, "station", "exchange", theirExchange,
                           LastEnd(e1) + ExchangeGap)
        e4 == updateAudioLock(e3, LastEnd(e3))
        e5 == playSentence(e4, "you", "signoff", yourSignoff, LastEnd(e3) + ExchangeGap)
        e6 == updateAudioLock(e5, LastEnd(e5))
        e7 == playSentence(e6, "station", "signoff", theirSignoff,
                           LastEnd(e5) + ExchangeGap)
    IN  updateAudioLock(e7, LastEnd(e7))

SingleComplete(st, yourResponseTimer, new, r) ==
    LET c1 == SingleExchangeChain(st, yourResponseTimer)
        c2 == [c1 EXCEPT !.totalContacts = @ + 1]
        c3 == addTableRow(c2, ContactRecord(SingleLoggedSeq(c2), c2.currentStation,
                                            SingleLoggedAttempts(c2), Elapsed(c2),
                                            "none"))
    IN  nextSingleStation(c3, LastEnd(c1), new, r)

\* lines 673-807
sendSingle(st0, text, new, r) ==
    IF st0.currentStation = NoStation THEN Took(st0, "no_target")
    ELSE
      LET st == SendOwnText(st0, text)
          yourResponseTimer == LastEnd(st)
          compareResult == compareStrings(st.currentStation.callsign,
                                          ReplaceFirst(text, "?"))
      IN
        IF IsRepeatRequest(text) THEN
          Took(Attempted(SingleReplay(st, yourResponseTimer, r)), "single_repeat")
        ELSE IF IsSlowRequest(text) THEN
          Took(Attempted(SingleReplay([st EXCEPT !.currentStation = Slowed(@)],
                                      yourResponseTimer, r)),
               "single_qrs")
        ELSE IF compareResult = "perfect" THEN
          IF Includes(text, "?") THEN
            LET a1 == playSentence(Attempted(st), "station", "ack", AckText,
                                   yourResponseTimer + AckDelaySingle)
            IN  Took(updateAudioLock(a1, LastEnd(a1)), "single_perfect_q")
          ELSE Took(SingleComplete(Attempted(st), yourResponseTimer, new, r),
                    "single_perfect")
        ELSE IF compareResult = "partial" THEN
          Took(SingleReplay(Attempted(st), yourResponseTimer, r), "single_partial")
        ELSE Took(SingleReplay(Attempted(st), yourResponseTimer, r), "single_none")

AutoPath(p) ==
    CASE p = "station_active" -> "auto_station_active"
      [] p = "invalid" -> "auto_invalid"
      [] p = "multi" -> "auto_multi"
      [] p = "single" -> "auto_single"
      [] OTHER -> p

\* (an empty send that calls whatever is on the air)
SendEmptyAlwaysCalls(st, form, news, new, r) ==
    LET c == cqRun(st, form, news, new, r) IN Took(c, AutoPath(c.path))

\* lines 541-547
SendEmpty(st, form, news, new, r) ==
    IF Len(st.currentStations) = 0
    THEN LET c == cqRun(st, form, news, new, r) IN Took(c, AutoPath(c.path))
    ELSE Took(st, "empty_noop")

\* typed is the raw value of the response field when send is clicked
sendRun(st0, typed, form, news, new, r) ==
    LET st == [st0 EXCEPT !.responseField = FieldHolding(typed)]
        responseFieldText == ToUpperCase(Trim(typed))
    IN  IF SendBusy THEN Took(st, "busy")
        ELSE IF responseFieldText = <<>> THEN SendEmpty(st, form, news, new, r)
        ELSE IF showTuStep(st.currentMode) THEN sendMulti(st, responseFieldText, r)
        ELSE sendSingle(st, responseFieldText, new, r)

\* what one run of send() can consume, by the branch it takes
SendIsAutoCq(st, typed) ==
    ~SendBusy /\ ToUpperCase(Trim(typed)) = <<>> /\ Len(st.currentStations) = 0

SendIsTargeted(st, typed) ==
    /\ ~SendBusy
    /\ ToUpperCase(Trim(typed)) # <<>>
    /\ IF showTuStep(st.currentMode) THEN Len(st.currentStations) > 0
       ELSE st.currentStation # NoStation

SendForms(st, typed) == IF SendIsAutoCq(st, typed) THEN CqForms(st) ELSE {NullInputs}

SendNews(st, typed, form) ==
    IF SendIsAutoCq(st, typed) THEN CqNews(st, form) ELSE {<<>>}

SendNew(st, typed, form) ==
    IF SendIsAutoCq(st, typed) THEN CqNew(st, form)
    ELSE IF SendIsTargeted(st, typed) /\ ~showTuStep(st.currentMode)
              /\ compareStrings(st.currentStation.callsign,
                                ToUpperCase(Trim(typed))) = "perfect"
         THEN Newcomers ELSE {CHOOSE n \in Newcomers : TRUE}

\* the texts worth typing: any text when send has a target, otherwise one
\* that is empty, one that is blank and one that is neither
SendTexts(st) ==
    IF SendBusy THEN {<<"K", "A">>}
    ELSE IF \E t \in Texts : SendIsTargeted(st, t)
         THEN IF st.sendsToStation < MaxAttempts THEN Texts ELSE {<<"Q", "R", "S">>}
    ELSE {<<>>, <<" ">>, <<"K", "A">>}

SendDraws(st, typed, form) ==
    IF SendIsAutoCq(st, typed) THEN CqDraws(st, form)
    ELSE IF SendIsTargeted(st, typed) THEN RandDelays ELSE {0}

send ==
    /\ sendsToStation < Max(MaxAttempts, MaxSlowdowns)
    /\ totalContacts < MaxContacts
    /\ \E typed \in SendTexts(Cur) :
         \E form \in SendForms(Cur, typed) :
           \E news \in SendNews(Cur, typed, form), new \in SendNew(Cur, typed, form),
              r \in SendDraws(Cur, typed, form) :
             Commit("send", typed, form, sendRun(Cur, typed, form, news, new, r))

\* compareExtraInfo(fieldKey, userInput, callingStation): lines 940-985
ParseInt(text) ==
    CASE text = <<"7">> -> [nan |-> FALSE, n |-> 7]
      [] text = <<"8">> -> [nan |-> FALSE, n |-> 8]
      [] OTHER -> [nan |-> TRUE, n |-> 0]

compareExtraInfo(fieldKey, userInput, callingStation) ==
    IF fieldKey = "" THEN "none"
    ELSE IF fieldKey = "serialNumber" THEN
      IF ParseInt(userInput).nan THEN "incomplete"
      ELSE IF ParseInt(userInput).n = serialNumber(callingStation) THEN "correct"
      ELSE "wrong"
    ELSE IF ToUpperCase(state(callingStation)) = <<>> THEN "N/A"
    ELSE IF Trim(ToUpperCase(userInput)) = ToUpperCase(state(callingStation))
         THEN "correct"
    ELSE "wrong"

\* tu(): lines 817-926
TuBusy == getAudioLock

\* (a tu that does not look at readyForTU)
TuDeclinesInSingleOnly(st) == ~showTuStep(st.currentMode)

TuDeclines(st) == ~showTuStep(st.currentMode) \/ ~st.readyForTU

RemoveAt(s, i) == SubSeq(s, 1, i - 1) \o SubSeq(s, i + 1, Len(s))

TuLoggedStation(st) == st.currentStations[st.activeStationIndex]

\* (a splice at the head of the registry)
TuSpliceFirst(st) == [st EXCEPT !.currentStations = Tail(@)]

TuSplice(st) == [st EXCEPT !.currentStations = RemoveAt(@, st.activeStationIndex)]

TuClear(st) ==
    [st EXCEPT !.activeStationIndex = NullIndex,
               !.currentStationAttempts = 0,
               !.readyForTU = FALSE,
               !.sendsToStation = 0]

TuTheirSignoffStart(yourResponseTimer) == yourResponseTimer + ExchangeGap

\* (both sign-offs requested for the same instant, the lock moved once)
TuSignoffsTogether(st) ==
    LET s1 == playSentence(st, "you", "signoff", yourSignoff,
                           currentTime + TuStartDelay)
        s3 == playSentence(s1, "station", "signoff", theirSignoff,
                           currentTime + TuStartDelay)
    IN  updateAudioLock(s3, LastEnd(s3))

\* lines 853-883
TuSignoffs(st) ==
    LET s1 == playSentence(st, "you", "signoff", yourSignoff,
                           currentTime + TuStartDelay)
        s2 == updateAudioLock(s1, LastEnd(s1))
        s3 == playSentence(s2, "station", "signoff", theirSignoff,
                           TuTheirSignoffStart(LastEnd(s1)))
    IN  IF HasTheirSignoff(st.currentMode) THEN updateAudioLock(s3, LastEnd(s3))
        ELSE s2

tuRun(st, info, admit, throws, news, r) ==
    IF TuBusy THEN Took(st, "busy")
    ELSE IF TuDeclines(st) THEN Took(st, "not_ready")
    ELSE IF st.activeStationIndex \notin 1..Len(st.currentStations)
         THEN Took([st EXCEPT !.totalContacts = @ + 1], "tu_throw_station")
    ELSE
      LET t1 == [st EXCEPT !.totalContacts = @ + 1]
          extraInfo == compareExtraInfo(extraInfoFieldKey(st.currentMode), info,
                                        TuLoggedStation(st))
          t2 == TuSignoffs(t1)
          responseTimerToUse == LastEnd(t2)
          t3 == addTableRow(t2, ContactRecord(t2.totalContacts, TuLoggedStation(st),
                                              t2.currentStationAttempts, Elapsed(t2),
                                              extraInfo))
          t4 == TuClear(TuSplice(t3))
          t5 == [updateActiveStations(t4, Len(t4.currentStations))
                   EXCEPT !.responseField = <<>>]
      IN  IF admit /\ throws THEN Took(t5, "tu_throw_inputs")
          ELSE
            LET t6 == IF admit THEN addStations(t5, news) ELSE t5
                t7 == respondWithAllStations(t6, t6.currentStations,
                                             responseTimerToUse, r)
            IN  Took([t7 EXCEPT !.lastRespondingStations = AliasList,
                                !.currentStationStartTime = At(currentTime)],
                     "done")

TuAccepts(st) ==
    /\ ~TuBusy
    /\ ~TuDeclines(st)
    /\ st.activeStationIndex \in 1..Len(st.currentStations)

\* addStations(currentStations, null): what it does with no configuration is
\* not defined, it may fail or admit stations
TuThrows(st, admit) ==
    IF TuAccepts(st) /\ admit /\ st.inputs = NullInputs THEN BOOLEAN ELSE {FALSE}

\* the stations tu() may admit: into the registry as it is after the splice
TuNews(st, admit, throws) ==
    IF TuAccepts(st) /\ admit /\ ~throws THEN Admissions(TuSplice(st)) ELSE {<<>>}

tu ==
    /\ totalContacts < MaxContacts
    /\ \E info \in (IF TuAccepts(Cur) THEN InfoTexts ELSE {<<>>}),
          admit \in (IF TuAccepts(Cur) THEN BOOLEAN ELSE {FALSE}),
          r \in (IF TuAccepts(Cur) THEN RandDelays ELSE {0}) :
         \E throws \in TuThrows(Cur, admit) :
           \E news \in TuNews(Cur, admit, throws) :
             Commit("tu", <<>>, NullInputs, tuRun(Cur, info, admit, throws, news, r))

\* (a stop that clears the station state whatever the mode)
stopRunAnyMode(st) ==
    updateActiveStations(
      [[stopAllAudio(st) EXCEPT !.cqDisabled = FALSE]
         EXCEPT !.currentStation = NoStation, !.currentStationAttempts = 0,
                !.currentStationStartTime = NullTime, !.sendsToStation = 0], 0)

\* (a stop that leaves the audio alone)
stopRunKeepsAudio(st) ==
    IF st.currentMode = "single"
    THEN updateActiveStations(
           [st EXCEPT !.cqDisabled = FALSE, !.currentStation = NoStation,
                      !.currentStationAttempts = 0,
                      !.currentStationStartTime = NullTime,
                      !.sendsToStation = 0], 0)
    ELSE [st EXCEPT !.cqDisabled = FALSE]

\* stop(): lines 1026-1038
stopRun(st) ==
    LET st1 == [stopAllAudio(st) EXCEPT !.cqDisabled = FALSE]
    IN  IF st.currentMode = "single"
        THEN updateActiveStations(
               [st1 EXCEPT !.currentStation = NoStation,
                           !.currentStationAttempts = 0,
                           !.currentStationStartTime = NullTime,
                           !.sendsToStation = 0], 0)
        ELSE st1

stop == Commit("stop", <<>>, NullInputs, Took(stopRun(Cur), "done"))

\* reset(): lines 1046-1072
\* (a reset that does no more than stop)
resetRunLikeStop(st) == stopRun(st)

resetRun(st) ==
    LET st1 == [st EXCEPT !.resultsTable = <<>>,
                          !.totalContacts = 0,
                          !.currentStation = NoStation,
                          !.currentStationAttempts = 0,
                          !.currentStationStartTime = NullTime,
                          !.sendsToStation = 0]
        st2 == [ReplaceRegistry(st1) EXCEPT !.activeStationIndex = NullIndex,
                                            !.readyForTU = FALSE]
        st3 == stopAllAudio(updateAudioLock(updateActiveStations(st2, 0), TimeZero))
    IN  [st3 EXCEPT !.responseField = <<>>, !.cqDisabled = FALSE]

reset == Commit("reset", <<>>, NullInputs, Took(resetRun(Cur), "done"))

\* the audio clock moves on: until the channel clears, or by one idle step
Shifted(start, d) ==
    IF start.set THEN At(Max(start.t - d, 0 - MaxElapsed)) ELSE start

Tick ==
    /\ \E d \in (IF getAudioLock THEN {audioLock - currentTime} ELSE {IdleStep}) :
         /\ audioLock' = Max(audioLock - d, currentTime)
         /\ currentStationStartTime' = Shifted(currentStationStartTime, d)
    /\ sched' = <<>>
    /\ lockTrace' = <<>>
    /\ born' = <<>>
    /\ event' = [op |-> "tick", path |-> "done", typed |-> <<>>, form |-> NullInputs,
                 locked |-> getAudioLock]
    /\ UNCHANGED <<currentMode, inputs, currentStations, currentStation,
                   activeStationIndex, readyForTU, currentStationAttempts,
                   totalContacts, yourStation, lastRespondingStations,
                   staticPlaying, responseField, resultsTable, cqDisabled,
                   activeShown, sendsToStation>>

Init ==
    /\ currentMode \in Modes
    /\ inputs = NullInputs
    /\ currentStations = <<>>
    /\ currentStation = NoStation
    /\ activeStationIndex = NullIndex
    /\ readyForTU = FALSE
    /\ currentStationAttempts = 0
    /\ currentStationStartTime = NullTime
    /\ totalContacts = 0
    /\ yourStation = NullStation
    /\ lastRespondingStations = NullList
    /\ audioLock = 0
    /\ staticPlaying = FALSE
    /\ responseField = <<>>
    /\ resultsTable = <<>>
    /\ cqDisabled = FALSE
    /\ activeShown = 0
    /\ sched = <<>>
    /\ lockTrace = <<>>
    /\ born = <<>>
    /\ sendsToStation = 0
    /\ event = [op |-> "init", path |-> "done", typed |-> <<>>, form |-> NullInputs,
                locked |-> FALSE]

Next ==
    \/ cq
    \/ send
    \/ tu
    \/ stop
    \/ reset
    \/ \E m \in Modes : changeMode(m)
    \/ Tick

Spec == Init /\ [][Next]_vars

\* the audio clock runs on its own: time does not stop while the trainee
\* acts or waits
FairSpec == Spec /\ WF_vars(Tick)

\* ------------------------------------------------------------------- claims
Handlers == {"cq", "send", "tu"}

\* station records without their object ids
Plain(s) == [i \in 1..Len(s) |-> [s[i] EXCEPT !.id = 0]]

Kinds(s) == [i \in 1..Len(s) |-> <<s[i].who, s[i].what>>]

Chained(s) == \A i \in 1..(Len(s) - 1) : s[i + 1].start >= s[i].end

NothingScheduled == sched' = <<>> /\ lockTrace' = <<>> /\ born' = <<>>

Appended(old, new) ==
    Len(new) = Len(old) + 1 /\ SubSeq(new, 1, Len(old)) = old

\* C1: a cq, send or tu issued while the channel is busy (now < lock) is a
\* no-op: it schedules no audio, leaves the lock as it is and changes no
\* Session State field; nothing is left to run later.
C1_BusyIsNoOp ==
    [][(getAudioLock /\ event'.op \in Handlers) =>
         /\ UNCHANGED <<sessionVars, audioLock, staticPlaying>>
         /\ NothingScheduled]_vars

\* a tu that would have been accepted, had the channel been free
C1_Witness ==
    /\ getAudioLock
    /\ event.op = "tu"
    /\ sched = <<>>
    /\ readyForTU

\* C2: in single mode, lock free, station active, a send that matches the
\* station's callsign perfectly and has no '?' schedules the trainee's
\* exchange, the station's exchange, the trainee's sign-off and the station's
\* sign-off in this order, appends exactly one contact record whose sequence
\* number is the incremented contact counter and whose attempt count is the
\* number of accepted sends made to that station, makes a newly generated
\* station the active one, and leaves the attempt counter 0 and the response
\* field empty.
C2_SingleCompletes ==
    [][(/\ currentMode = "single"
        /\ ~getAudioLock
        /\ currentStation # NoStation
        /\ event'.op = "send"
        /\ ~Includes(event'.typed, "?")
        /\ compareStrings(currentStation.callsign, event'.typed) = "perfect") =>
         /\ Len(sched') = 6
         /\ Kinds(SubSeq(sched', 2, 5)) =
              << <<"you", "exchange">>, <<"station", "exchange">>,
                 <<"you", "signoff">>, <<"station", "signoff">> >>
         /\ Chained(sched')
         /\ Appended(resultsTable, resultsTable')
         /\ totalContacts' = totalContacts + 1
         /\ resultsTable'[Len(resultsTable')].seq = totalContacts + 1
         /\ resultsTable'[Len(resultsTable')].attempts = sendsToStation + 1
         /\ resultsTable'[Len(resultsTable')].callsign = currentStation.callsign
         /\ Len(born') = 1
         /\ currentStation' = [born'[1] EXCEPT !.id = 1]
         /\ currentStationAttempts' = 0
         /\ responseField' = <<>>]_vars

\* a contact completed by the second send to the station
C2_Witness ==
    /\ currentMode = "single"
    /\ event.op = "send"
    /\ Len(sched) = 6
    /\ Len(resultsTable) = 1
    /\ resultsTable[1].attempts = 2
    /\ currentStation # NoStation

\* C3: in a multi-station mode, a tu accepted with readyForTU true appends
\* exactly one contact record for the station at activeStationIndex, adds one
\* to the contact counter, removes exactly that station from the registry
\* while the others keep their relative order, and leaves readyForTU false,
\* activeStationIndex unset and the attempt counter 0.
C3_TuLogsAndRemoves ==
    [][(/\ showTuStep(currentMode)
        /\ ~getAudioLock
        /\ readyForTU
        /\ event'.op = "tu") =>
         /\ Appended(resultsTable, resultsTable')
         /\ resultsTable'[Len(resultsTable')].callsign =
              currentStations[activeStationIndex].callsign
         /\ resultsTable'[Len(resultsTable')].seq = totalContacts + 1
         /\ totalContacts' = totalContacts + 1
         /\ Len(currentStations') >= Len(currentStations) - 1
         /\ Plain(SubSeq(currentStations', 1, Len(currentStations) - 1)) =
              Plain(RemoveAt(currentStations, activeStationIndex))
         /\ Len(currentStations') = Len(currentStations) - 1 + Len(born')
         /\ ~readyForTU'
         /\ activeStationIndex' = NullIndex
         /\ currentStationAttempts' = 0]_vars

\* the second of two stations was worked and the first one stays
C3_Witness ==
    /\ event.op = "tu"
    /\ Len(resultsTable) = 1
    /\ resultsTable[1].callsign = <<"K", "A", "B">>
    /\ born = <<>>
    /\ Len(currentStations) = 1
    /\ currentStations[1].callsign = <<"K", "A">>
    /\ ~readyForTU
FirstPerfect(typed) ==
    CHOOSE i \in 1..Len(currentStations) :
        /\ compareStrings(currentStations[i].callsign, typed) = "perfect"
        /\ \A j \in 1..(i - 1) :
             compareStrings(currentStations[j].callsign, typed) # "perfect"

\* C4: in a multi-station mode, an accepted send that matches some registry
\* station's callsign perfectly and has no '?' sets readyForTU, sets
\* activeStationIndex to the index of the first perfectly matching station,
\* adds one to the attempt counter, and neither logs a contact record nor
\* changes the contact counter or the registry.
C4_PerfectMarksReady ==
    [][(/\ showTuStep(currentMode)
        /\ ~getAudioLock
        /\ event'.op = "send"
        /\ ~Includes(event'.typed, "?")
        /\ \E i \in 1..Len(currentStations) :
             compareStrings(currentStations[i].callsign, event'.typed) = "perfect") =>
         /\ readyForTU'
         /\ activeStationIndex' = FirstPerfect(event'.typed)
         /\ currentStationAttempts' = currentStationAttempts + 1
         /\ resultsTable' = resultsTable
         /\ totalContacts' = totalContacts
         /\ Plain(currentStations') = Plain(currentStations)]_vars

\* C5: after a reset, from whatever state, the attempt counter is 0, the
\* contact counter is 0, the registry is empty, no single-mode station is
\* active, the log is empty and the lock is free.
C5_ResetClears ==
    event.op = "reset" =>
      /\ currentStationAttempts = 0
      /\ totalContacts = 0
      /\ currentStations = <<>>
      /\ currentStation = NoStation
      /\ resultsTable = <<>>
      /\ ~getAudioLock

\* a reset of a session whose registry held stations that had replied
C5_Witness ==
    /\ event.op = "reset"
    /\ lastRespondingStations.kind = "own"
    /\ lastRespondingStations.stns # <<>>

\* C6: a cq issued with an invalid configuration (getInputs returns null)
\* has no side effect: no audio starts, the background noise included, the
\* lock is unchanged and no Session State changes, the stored configuration
\* included.
C6_InvalidCallNoEffect ==
    [][(/\ event'.op = "cq"
        /\ ~getAudioLock
        /\ ~(currentMode = "single" /\ currentStation # NoStation)
        /\ event'.form = NullInputs) =>
         /\ UNCHANGED <<sessionVars, audioLock, staticPlaying>>
         /\ NothingScheduled]_vars

\* C7: a tu when readyForTU is false or the mode is single, and a send of a
\* non-empty text when there is no target, schedule no audio and leave the
\* lock and every Session State field unchanged.
C7_NothingToRespondTo ==
    [][(\/ /\ event'.op = "tu"
           /\ (~readyForTU \/ currentMode = "single")
        \/ /\ event'.op = "send"
           /\ Trim(event'.typed) # <<>>
           /\ IF currentMode = "single" THEN currentStation = NoStation
              ELSE currentStations = <<>>) =>
         /\ UNCHANGED <<sessionVars, audioLock, staticPlaying>>
         /\ NothingScheduled]_vars

\* a tu on a free channel with stations in the registry and none matched yet
C7_Witness ==
    /\ event.op = "tu"
    /\ currentMode # "single"
    /\ ~readyForTU
    /\ currentStations # <<>>
    /\ ~getAudioLock
    /\ sched = <<>>
\* the largest end timestamp among the first n segments
MaxEnd(s, n) == CHOOSE e \in {s[i].end : i \in 1..n} : \A i \in 1..n : s[i].end <= e

\* C8: over accepted cq, send and tu the lock never decreases: after each
\* lock update inside an action the lock is at least its prior value and
\* equals the largest end timestamp scheduled so far; it goes down only
\* through reset, mode change or stop.  (The lock is kept relative to the
\* present, so the passing of time is not a change of the lock.)
C8_LockMonotone ==
    [][/\ event'.op \in Handlers =>
            /\ audioLock' >= audioLock
            /\ \A k \in 1..Len(lockTrace') :
                 /\ lockTrace'[k].lock >=
                      (IF k = 1 THEN audioLock ELSE lockTrace'[k - 1].lock)
                 /\ lockTrace'[k].n >= 1
                 /\ lockTrace'[k].lock = MaxEnd(sched', lockTrace'[k].n)
            /\ lockTrace' # <<>> => audioLock' = lockTrace'[Len(lockTrace')].lock
       /\ (event'.op # "tick" /\ audioLock' < audioLock) =>
            event'.op \in {"reset", "changeMode", "stop"}]_vars

\* a tu that updated the lock after its sign-offs and after a station's reply
C8_Witness ==
    /\ event.op = "tu"
    /\ Len(lockTrace) >= 3
    /\ audioLock = sched[Len(sched)].end

\* C9: within one accepted action the segments are chained: each segment
\* after the first starts no earlier than the end of the segment scheduled
\* just before it, in the order own text, own exchange, station exchange,
\* own sign-off, station sign-off, next station's call (send), own sign-off,
\* station sign-off, replies (tu), CQ, replies (cq).
C9_SegmentsChained ==
    /\ Chained(sched)
    /\ (event.op = "cq" /\ sched # <<>>) =>
         /\ Kinds(sched)[1] = <<"you", "cq">>
         /\ \A i \in 2..Len(sched) : Kinds(sched)[i] = <<"station", "call">>
    /\ (event.op = "tu" /\ sched # <<>>) =>
         /\ Kinds(sched)[1] = <<"you", "signoff">>
         /\ \A i \in 2..Len(sched) :
              Kinds(sched)[i] = IF i = 2 /\ HasTheirSignoff(currentMode)
                                THEN <<"station", "signoff">>
                                ELSE <<"station", "call">>
    /\ (event.op = "send" /\ event.path = "single_perfect") =>
         Kinds(sched) = << <<"you", "text">>, <<"you", "exchange">>,
                           <<"station", "exchange">>, <<"you", "signoff">>,
                           <<"station", "signoff">>, <<"station", "call">> >>

\* a tu with both sign-offs and the reply of a remaining station
C9_Witness ==
    /\ event.op = "tu"
    /\ HasTheirSignoff(currentMode)
    /\ Len(sched) >= 3
    /\ sched[2].start > sched[1].end

\* C10: in single mode an accepted cq with no active station and a valid
\* configuration makes exactly one newly generated station active (attempt
\* counter 0, registry size shown as 1) and schedules exactly one station
\* reply, which starts after the end of the CQ; a cq while a station is
\* active changes nothing and schedules nothing.
C10_SingleCall ==
    [][/\ (/\ currentMode = "single"
           /\ ~getAudioLock
           /\ currentStation = NoStation
           /\ event'.op = "cq"
           /\ event'.form # NullInputs) =>
            /\ Len(born') = 1
            /\ currentStation' = [born'[1] EXCEPT !.id = 1]
            /\ currentStationAttempts' = 0
            /\ activeShown' = 1
            /\ Kinds(sched') = << <<"you", "cq">>, <<"station", "call">> >>
            /\ sched'[2].text = currentStation'.callsign
            /\ sched'[2].start > sched'[1].end
       /\ (/\ currentMode = "single"
           /\ currentStation # NoStation
           /\ event'.op = "cq") =>
            /\ UNCHANGED <<sessionVars, audioLock, staticPlaying>>
            /\ NothingScheduled]_vars

\* the first call of a single-mode session has been answered
C10_Witness ==
    /\ currentMode = "single"
    /\ event.op = "cq"
    /\ currentStation # NoStation
    /\ Len(sched) = 2
    /\ Len(born) = 1
\* the text send works on
Sent(typed) == ToUpperCase(Trim(typed))

\* the stations lastRespondingStations refers to, as registry positions
LastRespondingNow == LastResponding(Cur)

\* a send that the handler accepts in a multi-station mode
MultiSendOf(typed) ==
    /\ showTuStep(currentMode)
    /\ ~getAudioLock
    /\ currentStations # <<>>
    /\ Sent(typed) # <<>>

\* a send that the handler accepts in single mode
SingleSendOf(typed) ==
    /\ currentMode = "single"
    /\ ~getAudioLock
    /\ currentStation # NoStation
    /\ Sent(typed) # <<>>

\* the segments after the trainee's own text are the calls of `stations`
RepliesOf(s, stations) ==
    /\ Len(s) = 1 + Len(stations)
    /\ Kinds(s)[1] = <<"you", "text">>
    /\ \A i \in 1..Len(stations) :
         /\ Kinds(s)[i + 1] = <<"station", "call">>
         /\ s[i + 1].text = stations[i].callsign

\* C11: in a multi-station mode with a station in the registry, an accepted
\* send of '?', 'AGN' or 'AGN?' replays every station of the registry after
\* the trainee's transmission, makes the whole registry the last responding
\* stations, adds one to the attempt counter, removes no station and leaves
\* readyForTU, activeStationIndex, the contact counter and the log unchanged.
C11_RepeatReplaysAll ==
    [][(/\ event'.op = "send"
        /\ MultiSendOf(event'.typed)
        /\ IsRepeatRequest(Sent(event'.typed))) =>
         /\ RepliesOf(sched', currentStations)
         /\ Chained(sched')
         /\ LastRespondingNow' = Refs(currentStations')
         /\ currentStationAttempts' = currentStationAttempts + 1
         /\ currentStations' = currentStations
         /\ UNCHANGED <<readyForTU, activeStationIndex, totalContacts,
                        resultsTable>>]_vars

\* a repeat request answered by two stations, after only one of them had
\* responded to the send before
C11_Witness ==
    /\ event.op = "send"
    /\ IsRepeatRequest(Sent(event.typed))
    /\ Len(sched) = 3
    /\ sendsToStation = 2
    /\ currentStationAttempts = 2
\* the stations on the air: the registry, or the one active station
OnTheAir ==
    IF showTuStep(currentMode) THEN {currentStations[i] : i \in 1..Len(currentStations)}
    ELSE {currentStation} \ {NoStation}

\* C12: a station with wpm = 20 starts without Farnsworth spacing; after the
\* first accepted QRS that reaches it Farnsworth is enabled at 14, after the
\* second at 8, after the third at 5, and after the fourth and every later
\* one it stays at 5, in single mode and in the multi-station modes.
C12_SlowdownSteps ==
    \A stn \in OnTheAir :
        stn.wpm = 20 =>
          /\ stn.slowdowns = 0 => ~stn.enableFarnsworth
          /\ stn.slowdowns > 0 => stn.enableFarnsworth
          /\ stn.slowdowns = 1 => stn.farnsworthSpeed = 14
          /\ stn.slowdowns = 2 => stn.farnsworthSpeed = 8
          /\ stn.slowdowns >= 3 => stn.farnsworthSpeed = 5

\* a fourth QRS in a row has just been answered by a station with wpm = 20
C12_Witness ==
    /\ event.op = "send"
    /\ IsSlowRequest(Sent(event.typed))
    /\ showTuStep(currentMode)
    /\ \E stn \in OnTheAir : stn.wpm = 20 /\ stn.slowdowns = 4

\* the same in single mode
C12_WitnessSingle ==
    /\ event.op = "send"
    /\ IsSlowRequest(Sent(event.typed))
    /\ currentMode = "single"
    /\ \E stn \in OnTheAir : stn.wpm = 20 /\ stn.slowdowns = 4
\* C13: stop in a multi-station mode leaves the registry, readyForTU,
\* activeStationIndex, the attempt counter, the contact counter and the log
\* unchanged; stop in single mode clears the active station, sets the attempt
\* counter to 0 and unsets the start timestamp, and leaves the contact
\* counter and the log unchanged.
C13_StopFrame ==
    [][event'.op = "stop" =>
         /\ UNCHANGED <<totalContacts, resultsTable>>
         /\ showTuStep(currentMode) =>
              UNCHANGED <<currentStations, readyForTU, activeStationIndex,
                          currentStationAttempts>>
         /\ currentMode = "single" =>
              /\ currentStation' = NoStation
              /\ currentStationAttempts' = 0
              /\ currentStationStartTime' = NullTime]_vars

\* stop in a multi-station mode while a matched station waits for the TU
C13_Witness ==
    /\ event.op = "stop"
    /\ showTuStep(currentMode)
    /\ currentStations # <<>>
    /\ readyForTU
    /\ currentStationAttempts > 0

\* stop in single mode after a contact, when the next station had been set up
C13_WitnessSingle ==
    /\ event.op = "stop"
    /\ currentMode = "single"
    /\ totalContacts = 1
    /\ currentStation = NoStation
\* C14: from every reachable state the lock is free immediately after stop,
\* and a cq, send or tu that follows stop directly is not rejected as busy.
C14_StopFreesLock ==
    [][/\ event'.op = "stop" => ~getAudioLock'
       /\ (event.op = "stop" /\ event'.op \in Handlers) => event'.path # "busy"]_vars

\* stop while the channel was busy
C14_Witness ==
    /\ event.op = "stop"
    /\ event.locked
    /\ ~getAudioLock

\* a send accepted in a multi-station session whose audio has been stopped
C14_WitnessNext ==
    /\ event.op = "send"
    /\ ~event.locked
    /\ event.path # "busy"
    /\ currentStations # <<>>
    /\ ~staticPlaying
\* the send matches a registry station's callsign exactly and carries no '?'
PerfectPlain(typed) ==
    /\ ~Includes(Sent(typed), "?")
    /\ \E i \in 1..Len(currentStations) :
         compareStrings(currentStations[i].callsign, Sent(typed)) = "perfect"

\* C15: readyForTU is true only while the preceding accepted send was a
\* perfect match without '?': an accepted send of any other kind (repeat,
\* QRS, partial match, no match, perfect match with '?') leaves readyForTU
\* false.
C15_ReadyOnlyAfterPerfect ==
    [][(/\ event'.op = "send"
        /\ MultiSendOf(event'.typed)
        /\ ~PerfectPlain(event'.typed)) => ~readyForTU']_vars
\* C16: after reset or a mode change every Session State field is at its
\* initial value: the registry is empty, no station is active, readyForTU is
\* false, activeStationIndex and the start timestamp are unset, the attempt
\* and contact counters are 0, the log is empty and lastRespondingStations
\* holds no station from before; reset leaves the mode unchanged.
C16_ResetRestoresInit ==
    [][event'.op \in {"reset", "changeMode"} =>
         /\ currentStations' = <<>>
         /\ currentStation' = NoStation
         /\ activeStationIndex' = NullIndex
         /\ ~readyForTU'
         /\ currentStationAttempts' = 0
         /\ currentStationStartTime' = NullTime
         /\ totalContacts' = 0
         /\ resultsTable' = <<>>
         /\ lastRespondingStations'.stns = <<>>
         /\ event'.op = "reset" => currentMode' = currentMode]_vars

\* the part of C16 that the handlers do establish
C16_ResetRestoresAssigned ==
    [][event'.op \in {"reset", "changeMode"} =>
         /\ currentStations' = <<>>
         /\ currentStation' = NoStation
         /\ activeStationIndex' = NullIndex
         /\ ~readyForTU'
         /\ currentStationAttempts' = 0
         /\ currentStationStartTime' = NullTime
         /\ totalContacts' = 0
         /\ resultsTable' = <<>>
         /\ event'.op = "reset" => currentMode' = currentMode]_vars
\* C17: in a multi-station mode an accepted QRS lowers the Farnsworth speed
\* of every station of the registry and replays every one of them, the same
\* stations as a repeat request, whatever was sent before (a partial match
\* of only some stations included).
C17_SlowdownReachesAll ==
    [][(/\ event'.op = "send"
        /\ MultiSendOf(event'.typed)
        /\ IsSlowRequest(Sent(event'.typed))) =>
         /\ RepliesOf(sched', currentStations)
         /\ currentStations' =
              [i \in 1..Len(currentStations) |-> Slowed(currentStations[i])]]_vars

\* what the handler does: the stations that responded last are the ones
\* slowed and replayed
C17_SlowdownReachesLast ==
    [][(/\ event'.op = "send"
        /\ MultiSendOf(event'.typed)
        /\ IsSlowRequest(Sent(event'.typed))) =>
         /\ RepliesOf(sched', [i \in 1..Len(LastRespondingNow) |->
                                 currentStations[PositionOf(currentStations,
                                                            LastRespondingNow[i].id)]])
         /\ currentStations' = SlowIn(currentStations, LastRespondingNow)]_vars
\* C18: after any accepted QRS every station it reached has
\* enableFarnsworth = true and farnsworthSpeed >= 5, for every wpm the
\* generator produces, whether or not Farnsworth was enabled before, in
\* single mode and in the multi-station modes.
C18_SlowdownFloor ==
    \A stn \in OnTheAir :
        stn.slowdowns > 0 =>
          stn.enableFarnsworth /\ stn.farnsworthSpeed >= FarnsworthFloor

\* the same for the stations fast enough for the first step
C18_SlowdownFloorFast ==
    \A stn \in OnTheAir :
        (stn.slowdowns > 0 /\ stn.wpm >= FarnsworthFloor + farnsworthLowerBy) =>
          stn.enableFarnsworth /\ stn.farnsworthSpeed >= FarnsworthFloor
\* the send is no control token and matches no callsign in `calls`
MatchesNone(typed, calls) ==
    /\ ~IsRepeatRequest(Sent(typed))
    /\ ~IsSlowRequest(Sent(typed))
    /\ \A c \in calls : compareStrings(c, ReplaceFirst(Sent(typed), "?")) = "none"

\* C19: in a multi-station mode an accepted send that matches no station
\* adds exactly one to the attempt counter and schedules no station audio
\* (only the trainee's own transmission), and leaves the registry,
\* readyForTU, activeStationIndex, lastRespondingStations, the contact
\* counter and the log unchanged; this repeats for any number of such sends.
C19_NoMatchCountsOnly ==
    [][(/\ event'.op = "send"
        /\ MultiSendOf(event'.typed)
        /\ MatchesNone(event'.typed,
                       {currentStations[i].callsign : i \in 1..Len(currentStations)})) =>
         /\ currentStationAttempts' = currentStationAttempts + 1
         /\ Kinds(sched') = << <<"you", "text">> >>
         /\ UNCHANGED <<currentStations, readyForTU, activeStationIndex,
                        lastRespondingStations, totalContacts, resultsTable>>]_vars

\* a send that matches nothing while a station matched by the send before
\* is waiting for the TU
C19_Witness ==
    /\ event.op = "send"
    /\ showTuStep(currentMode)
    /\ event.typed = <<"W">>
    /\ Kinds(sched) = << <<"you", "text">> >>
    /\ readyForTU
    /\ currentStationAttempts = 2
\* C20: in single mode an accepted send whose comparison with the active
\* station's callsign gives none adds one to the attempt counter and
\* schedules no station audio, as in the multi-station modes; the station
\* stays active.
C20_SingleNoMatchSilent ==
    [][(/\ event'.op = "send"
        /\ SingleSendOf(event'.typed)
        /\ MatchesNone(event'.typed, {currentStation.callsign})) =>
         /\ currentStationAttempts' = currentStationAttempts + 1
         /\ Kinds(sched') = << <<"you", "text">> >>
         /\ currentStation' = currentStation]_vars

\* what the handler does: the station sends its callsign again
C20_NoMatchReplays ==
    [][(/\ event'.op = "send"
        /\ SingleSendOf(event'.typed)
        /\ MatchesNone(event'.typed, {currentStation.callsign})) =>
         /\ currentStationAttempts' = currentStationAttempts + 1
         /\ RepliesOf(sched', <<currentStation>>)
         /\ currentStation' = currentStation]_vars
\* the send carries a '?' and, without it, is exactly a callsign of `calls`
PerfectAsking(typed, calls) ==
    /\ ~IsRepeatRequest(Sent(typed))
    /\ ~IsSlowRequest(Sent(typed))
    /\ Includes(Sent(typed), "?")
    /\ \E c \in calls : compareStrings(c, ReplaceFirst(Sent(typed), "?")) = "perfect"

RegistryCalls == {currentStations[i].callsign : i \in 1..Len(currentStations)}

\* C21: in single mode and in the multi-station modes, an accepted send that
\* matches a station's callsign perfectly and contains a '?' schedules the
\* short acknowledgment RR of the station after the trainee's transmission,
\* adds exactly one to the attempt counter and changes nothing else: the
\* registry, the active station, readyForTU, activeStationIndex, the contact
\* counter and the log stay as they are.
C21_AskingIsAcknowledged ==
    [][(/\ event'.op = "send"
        /\ \/ MultiSendOf(event'.typed) /\ PerfectAsking(event'.typed, RegistryCalls)
           \/ SingleSendOf(event'.typed)
                /\ PerfectAsking(event'.typed, {currentStation.callsign})) =>
         /\ Kinds(sched') = << <<"you", "text">>, <<"station", "ack">> >>
         /\ sched'[2].text = AckText
         /\ Chained(sched')
         /\ currentStationAttempts' = currentStationAttempts + 1
         /\ UNCHANGED <<currentStations, currentStation, readyForTU,
                        activeStationIndex, totalContacts, resultsTable,
                        lastRespondingStations, currentStationStartTime>>]_vars

\* 'KA?' acknowledged in a multi-station mode with two stations on the air
C21_Witness ==
    /\ event.op = "send"
    /\ event.typed = <<"K", "A", "?">>
    /\ showTuStep(currentMode)
    /\ Len(currentStations) = 2
    /\ Kinds(sched) = << <<"you", "text">>, <<"station", "ack">> >>

\* the same in single mode
C21_WitnessSingle ==
    /\ event.op = "send"
    /\ event.typed = <<"K", "A", "?">>
    /\ currentMode = "single"
    /\ Kinds(sched) = << <<"you", "text">>, <<"station", "ack">> >>
\* the registry stations whose callsign compares as `kind` with the send
Matching(typed, kind) ==
    SelectSeq(currentStations,
              LAMBDA stn : compareStrings(stn.callsign,
                                          ReplaceFirst(Sent(typed), "?")) = kind)

\* a send that goes to the comparison with the callsigns
Compared(typed) ==
    /\ MultiSendOf(typed)
    /\ ~IsRepeatRequest(Sent(typed))
    /\ ~IsSlowRequest(Sent(typed))

\* C22: in a multi-station mode, an accepted send that matches no station
\* perfectly and one or more stations partially replays exactly the
\* partially matching stations, one after the other after the trainee's
\* transmission, makes exactly them the last responding stations, adds one
\* to the attempt counter and leaves the registry, readyForTU and
\* activeStationIndex unchanged; when some station matches perfectly, no
\* partially matching station is replayed.
C22_PartialReplaysMatching ==
    [][(event'.op = "send" /\ Compared(event'.typed)) =>
         /\ (Matching(event'.typed, "perfect") = <<>>
               /\ Matching(event'.typed, "partial") # <<>>) =>
              /\ RepliesOf(sched', Matching(event'.typed, "partial"))
              /\ Chained(sched')
              /\ LastRespondingNow' = Refs(Matching(event'.typed, "partial"))
              /\ currentStationAttempts' = currentStationAttempts + 1
              /\ UNCHANGED <<currentStations, readyForTU, activeStationIndex>>
         /\ Matching(event'.typed, "perfect") # <<>> =>
              \A i \in 1..Len(sched') : Kinds(sched')[i] # <<"station", "call">>]_vars

\* 'B' is part of one of two callsigns on the air: that station alone replies
C22_Witness ==
    /\ event.op = "send"
    /\ event.typed = <<"B">>
    /\ Len(currentStations) = 2
    /\ Len(sched) = 2
    /\ Len(LastRespondingNow) = 1

\* 'K' is part of both callsigns: both reply
C22_WitnessBoth ==
    /\ event.op = "send"
    /\ event.typed = <<"K">>
    /\ Len(currentStations) = 2
    /\ Len(sched) = 3
    /\ lastRespondingStations.kind = "own"

\* 'KA' is one callsign exactly and part of the other, which is first in
\* the registry
C22_WitnessPerfect ==
    /\ event.op = "send"
    /\ event.typed = <<"K", "A">>
    /\ Len(currentStations) = 2
    /\ currentStations[1].callsign = <<"K", "A", "B">>
    /\ readyForTU
    /\ activeStationIndex = 2
    /\ Kinds(sched) = << <<"you", "text">>, <<"you", "exchange">>,
                         <<"station", "exchange">> >>
\* the step ends in the Session State, lock, noise layer and schedule of `st`
EndsAs(st) ==
    /\ currentMode' = st.currentMode
    /\ inputs' = st.inputs
    /\ currentStations' = st.currentStations
    /\ currentStation' = st.currentStation
    /\ activeStationIndex' = st.activeStationIndex
    /\ readyForTU' = st.readyForTU
    /\ currentStationAttempts' = st.currentStationAttempts
    /\ currentStationStartTime' = st.currentStationStartTime
    /\ totalContacts' = st.totalContacts
    /\ yourStation' = st.yourStation
    /\ lastRespondingStations' = st.lastRespondingStations
    /\ resultsTable' = st.resultsTable
    /\ cqDisabled' = st.cqDisabled
    /\ activeShown' = st.activeShown
    /\ audioLock' = st.audioLock
    /\ staticPlaying' = st.staticPlaying
    /\ sched' = st.sched
    /\ lockTrace' = st.lockTrace
    /\ born' = st.born

\* the step ends as some run of cq() from the present state with the same form
EndsAsCall(form) ==
    \E news \in CqNews(Cur, form), new \in CqNew(Cur, form), r \in CqDraws(Cur, form) :
        EndsAs(RenameIds(cqRun(Cur, form, news, new, r)))

\* C23: a send with empty or blank input and an empty registry has exactly
\* the effect of a call from the same state (the same Session State and
\* scheduled audio, the rejections of cq included); a send with empty input
\* and a station in the registry changes nothing and schedules nothing.
C23_EmptySendCalls ==
    [][(event'.op = "send" /\ Sent(event'.typed) = <<>>) =>
         IF currentStations = <<>>
         THEN EndsAsCall(event'.form)
         ELSE /\ UNCHANGED <<sessionVars, audioLock, staticPlaying>>
              /\ NothingScheduled]_vars

\* a blank send has called CQ in a multi-station mode and a station answered
C23_Witness ==
    /\ event.op = "send"
    /\ event.typed = <<" ">>
    /\ showTuStep(currentMode)
    /\ currentStations # <<>>
    /\ Kinds(sched)[1] = <<"you", "cq">>

\* an empty send with a station in the registry
C23_WitnessNoOp ==
    /\ event.op = "send"
    /\ event.typed = <<>>
    /\ ~event.locked
    /\ currentStations # <<>>
    /\ sched = <<>>

\* an empty send in single mode with a station active: the call is rejected
C23_WitnessRejected ==
    /\ event.op = "send"
    /\ event.typed = <<>>
    /\ ~event.locked
    /\ currentMode = "single"
    /\ currentStation # NoStation
    /\ sched = <<>>
\* C24: in every mode, whenever a contact record is logged the per-contact
\* start timestamp has been set and is not later than the clock, so that the
\* logged elapsed time is non-negative and counts from the start of that
\* contact; this holds for every contact of a session, the first one after
\* a reset or a mode change included.
C24_ElapsedFromStart ==
    \A i \in 1..Len(resultsTable) :
        resultsTable[i].elapsed.fromStart /\ resultsTable[i].elapsed.t >= 0

\* the same for the contacts of single mode
C24_ElapsedFromStartSingle ==
    currentMode = "single" =>
      \A i \in 1..Len(resultsTable) :
          resultsTable[i].elapsed.fromStart /\ resultsTable[i].elapsed.t >= 0
\* the station activeStationIndex points at
Marked == currentStations[activeStationIndex]

\* C25: whenever readyForTU is true, activeStationIndex is an index into the
\* registry and the station there is the one whose callsign matched the send
\* that set the flag, whatever calls (which append the stations they admit),
\* sends, stops and confirmations come in between: the flag is set only by a
\* send that matches exactly, which points at the matched station, and every
\* other step that leaves the flag true leaves the same station pointed at.
C25_MarkedIsMatched ==
    [][readyForTU' =>
         /\ activeStationIndex' \in 1..Len(currentStations')
         /\ IF /\ event'.op = "send"
               /\ Compared(event'.typed)
               /\ PerfectPlain(event'.typed)
               /\ inputs # NullInputs
            THEN compareStrings(Marked'.callsign, Sent(event'.typed)) = "perfect"
            ELSE /\ readyForTU
                 /\ activeStationIndex \in 1..Len(currentStations)
                 /\ Marked'.id = Marked.id
                 /\ Marked'.callsign = Marked.callsign]_vars

\* a call has admitted a second station while the first waits for the TU
C25_Witness ==
    /\ event.op = "cq"
    /\ readyForTU
    /\ activeStationIndex = 1
    /\ Len(currentStations) = 2
    /\ Len(born) = 1

\* the second station of the registry is matched exactly and the first in part
C25_WitnessSecond ==
    /\ event.op = "send"
    /\ readyForTU
    /\ activeStationIndex = 2
    /\ currentStations[2].callsign = <<"K", "A">>
    /\ event.typed = <<"K", "A">>
\* C26: in a multi-station mode, whenever the registry is non-empty the
\* stored configuration of the trainee (inputs) is a valid one and not null,
\* so that a send that matches exactly can read the cut-number setting and a
\* confirmation can admit new stations without failing part-way.
C26_ConfigurationKept ==
    (showTuStep(currentMode) /\ currentStations # <<>>) => inputs # NullInputs

\* what does hold: a call with a valid form leaves a valid configuration
C26_ConfigurationAfterValidCalls ==
    [][(event'.op \in {"cq", "send"} /\ event'.form # NullInputs) =>
         inputs' # NullInputs]_vars
\* C27: in a multi-station mode, after every action that leaves the registry
\* non-empty, lastRespondingStations is not null and holds only stations
\* that are in the registry, so that a QRS never slows or replays a station
\* that has been logged and removed.
C27_LastRespondingOnAir ==
    (showTuStep(currentMode) /\ currentStations # <<>>) =>
      /\ lastRespondingStations.kind # "null"
      /\ SeqIds(LastRespondingNow) \subseteq SeqIds(currentStations)
\* what does hold: an action that runs to its end keeps lastRespondingStations
\* within the registry; a tu that fails while it admits stations does not
C27_LastRespondingAfterCompleted ==
    [][(C27_LastRespondingOnAir /\ event'.path # "tu_throw_inputs") =>
         C27_LastRespondingOnAir']_vars
\* C28: the channel never stays busy for ever: the lock is a finite
\* timestamp, so with the clock advancing a busy channel becomes free, and
\* on a free channel no cq, send or tu is rejected as busy.
C28_LockFrees ==
    /\ getAudioLock ~> ~getAudioLock
    /\ [][(~getAudioLock /\ event'.op \in Handlers) => event'.path # "busy"]_vars

\* the clock has passed the end of the scheduled audio
C28_Witness ==
    /\ event.op = "tick"
    /\ event.locked
    /\ ~getAudioLock

\* a tu accepted on a channel that had been busy
C28_WitnessAccepted ==
    /\ event.op = "tu"
    /\ ~event.locked
    /\ event.path = "done"
====
